---- MODULE Spec2Model ----
(***************************************************************************)
(* Model of the data plane of httpmq (package dataplane): the inflight-    *)
(* message tracker (jetStreamInflightMsgProcessorImpl) with the serial     *)
(* task processor (common.TaskProcessor) it submits its requests to, the   *)
(* push subscriber, the publisher, the push message dispatcher that wires  *)
(* tracker, ack receiver and subscriber together, and the interval timer.  *)
(*                                                                         *)
(* Callers invoke RecordInflightMessage / HandlerMsgACK.  Each call builds *)
(* a request, submits it to the task processor queue and, when blocking,   *)
(* waits on its own unbuffered result channel or on its context.  The      *)
(* single task processor worker takes requests off the queue and runs the  *)
(* registered handler (processInflightMessage / processMsgACK), which      *)
(* mutates inflightPerStream and calls AckSync on the broker message.      *)
(*                                                                         *)
(* Spec      one caller making blocking calls with every kind of message   *)
(*           and ack indication: the tracker's map and the acks.           *)
(* SpecQueue two callers, one key, more calls than the queue holds: the    *)
(*           task processor's queue and worker.                            *)
(* SpecSubscriber  StartReading raced by two callers, and the read loop    *)
(*           with its forward and error callbacks and its cleanup.         *)
(* SpecPublisher   Publish waiting for the broker's answer or the context. *)
(* SpecTimer       IntervalTimer started, restarted, firing and stopped.   *)
(* SpecDispatcher  Start raced by two callers, then the task processor     *)
(*           worker, the ack receiver worker and the read loop running     *)
(*           together against one client, until the scope is cancelled.    *)
(* SpecForward     one Start, then the forward path: deliveries and        *)
(*           redeliveries, a client sink that takes or fails, and the      *)
(*           acks that follow.                                             *)
(***************************************************************************)
EXTENDS Integers, Sequences, FiniteSets, TLC

(***************************************************************************)
(* Bounds of the model.                                                    *)
(***************************************************************************)
MaxCalls == 3           \* calls of RecordInflightMessage / HandlerMsgACK under Spec
MaxQueueCalls == 5      \* calls of RecordInflightMessage / HandlerMsgACK under SpecQueue
MaxSeq == 2             \* stream sequence numbers 1..MaxSeq
MaxInflight == 1        \* maxInflightMsgs handed to GetPushMessageDispatcher
QueueFactor == 4        \* task queue capacity is maxInflightMsgs*4
MaxStarts == 3          \* calls of StartReading
MaxReads == 2           \* messages the subscription hands to the read loop
MaxPublishes == 3       \* calls of Publish
MaxDispStarts == 3      \* calls of the dispatcher's Start
MaxDeliveries == 1      \* messages the broker delivers to a started dispatcher
MaxForwards == 2        \* deliveries to the forward callback under SpecForward
MaxTimerStarts == 3     \* calls of IntervalTimer.Start
MaxTime == 5            \* the clock stops here
MaxPeriod == 2          \* timer periods 1..MaxPeriod

Callers == {"c1", "c2"}
Streams == {"S", "T"}
TrackerConsumer == "C"  \* the consumer the tracker instance is bound to
Consumers == {"C", "X"}
SeqNums == 1..MaxSeq
CallIds == 1..(MaxCalls + MaxQueueCalls)
Starters == {"r1", "r2"}

\* Mutant: the queue is made one slot larger than maxInflightMsgs*4
QueueCapacityPlusOne == MaxInflight * QueueFactor + 1

QueueCapacity == MaxInflight * QueueFactor

(***************************************************************************)
(* Errors.  An error is its format string and the arguments formatted into *)
(* it, in the order the code passes them.                                  *)
(***************************************************************************)
Error(text, a, b, n) == [text |-> text, a |-> a, b |-> b, n |-> n]

NoError == Error("nil", "", "", 0)
Pending == Error("call has not returned", "", "", 0)
ErrMetadata == Error("metadata unavailable", "", "", 0)
ErrConsumerMismatch(expected, got) ==
    Error("message expected for %s, but meta says %s", expected, got, 0)
ErrNoStream(stream) == Error("no records related to stream %s", stream, "", 0)
ErrNoConsumer(consumer, stream) ==
    Error("no records related to consumer %s on stream %s", consumer, stream, 0)
ErrNoMessage(seq, consumer, stream) ==
    Error("no records related message [%d] for %s@%s", consumer, stream, seq)
ErrAckSync == Error("ack sync failed", "", "", 0)
ErrContext == Error("context canceled", "", "", 0)
ErrQueueClosed == Error("queue closed", "", "", 0)
ErrAlreadyReading == Error("already reading", "", "", 0)
ErrRead == Error("read failure", "", "", 0)
ErrForward == Error("unable to forward", "", "", 0)
ErrAlreadyStarted == Error("already started", "", "", 0)
ErrSubscribeForACKs == Error("unable to subscribe for ACKs", "", "", 0)
ErrPublish == Error("unable to send message", "", "", 0)
ErrNack == Error("broker nack", "", "", 0)
ErrOkClosed == Error("reading nats.PubAckFuture OK channel failure", "", "", 0)
ErrErrClosed == Error("reading nats.PubAckFuture error channel failure", "", "", 0)

AbsentErrors ==
    {ErrNoStream(s) : s \in Streams}
    \cup {ErrNoConsumer(c, s) : c \in Consumers, s \in Streams}
    \cup {ErrNoMessage(n, c, s) : n \in SeqNums, c \in Consumers, s \in Streams}

(***************************************************************************)
(* Broker messages and ack indications.  A message handle (a nats.Msg      *)
(* pointer) is identified by id; every delivery, a redelivery included, is *)
(* a new handle.  meta = FALSE: msg.Metadata() returns an error.           *)
(***************************************************************************)
Msg(id, stream, consumer, seq) ==
    [id |-> id, stream |-> stream, consumer |-> consumer, seq |-> seq, meta |-> TRUE]
MsgNoMeta(id) ==
    [id |-> id, stream |-> "", consumer |-> "", seq |-> 0, meta |-> FALSE]
NoMsg == [id |-> 0, stream |-> "", consumer |-> "", seq |-> 0, meta |-> FALSE]

AckIndication(stream, consumer, seq) ==
    [stream |-> stream, consumer |-> consumer, seq |-> seq]
NoAck == AckIndication("", "", 0)
AckIndications ==
    {AckIndication(s, c, n) : s \in Streams, c \in Consumers, n \in SeqNums}

MsgKey(m) == AckIndication(m.stream, m.consumer, m.seq)

VARIABLES
    inflightPerStream,  \* stream -> [consumers: consumer -> [inflight: seq -> msg]]
    ackSyncCalls,       \* handle id -> number of AckSync calls on that handle
    ackSyncOK,          \* handle id -> number of AckSync calls that succeeded
    newTasks,           \* the task processor's queue of accepted requests
    tpState,            \* "created", "running" or "exited"
    running,            \* handler executions in progress
    opCancelled,        \* the task processor's operating context is cancelled
    callerPC,           \* caller -> "idle", "submitting" or "waiting"
    request,            \* caller -> the request of its current call
    callCancelled,      \* caller -> callCtxt of its current call is cancelled
    returned,           \* caller -> what its last call returned
    numCalls,           \* calls made so far
    numAccepted,        \* requests accepted by Submit so far
    handled,            \* the last handler execution
    superseded,         \* messages overwritten in the map by a later record
    acked,              \* messages on which AckSync succeeded
    \* jetStreamPushSubscriberImpl and its read loop
    reading,            \* r.reading
    subLock,            \* the StartReading call holding r.lock, "" when free
    callbacks,          \* the StartReading call whose forwardCB / errorCB are registered
    wg,                 \* the wait-group's counter
    readerPC,           \* starter -> "idle" or "locking" / "locked" in StartReading
    readerCall,         \* starter -> the number of its StartReading call
    readerResult,       \* starter -> what its last StartReading returned
    numStarts,          \* StartReading calls made so far
    spawned,            \* read loop goroutines started so far
    subPC,              \* the read loop: "none", "nextMsg", "forward", "drain",
                        \* "unsubscribe", "release" or "done"
    subMsg,             \* the message the read loop is forwarding
    numReads,           \* messages the subscription has handed out
    alerts,             \* the errors passed to errorCB, in order
    forwarded,          \* the messages given to forwardMsg and what it returned
    cleanups,           \* the Drain / Unsubscribe attempts and their outcomes, in order
    \* jetStreamPublisherImpl.Publish
    pubPC,              \* "idle", "publishing" (at PublishAsync) or "awaiting" (in select)
    okChan,             \* ack.Ok(): "empty", "ack" or "closed"
    errChan,            \* ack.Err(): "empty", "nack" or "closed"
    pubCancelled,       \* ctxt of the Publish call is cancelled
    pubResult,          \* what the last Publish returned
    numPublishes,       \* Publish calls made so far
    \* IntervalTimer
    clock,              \* the time, in periods of the shortest timer
    schedule,           \* the timer's active schedule, NoSchedule when it has none
    starts,             \* the Start calls made: period, fire_once and time of call
    fires,              \* the callback's invocations: schedule and time
    cancelledSchedules, \* the schedules a later Start or the scope cancelled
    timerCancelled,     \* the timer's scope is cancelled
    \* pushMessageDispatcher, the ack receiver's worker and the client
    started,            \* d.started
    dispLock,           \* the Start call holding d.lock, "" when free
    startPC,            \* starter -> "idle", "locking", "tp", "acks", "sub" or "reading"
    startResult,        \* starter -> what its last Start returned
    numDispStarts,      \* Start calls made so far
    ackPC,              \* the ack receiver's worker: "none", "nextAck", "callback",
                        \* "acking" or "done"
    ackIn,              \* the ack indication the ack receiver is delivering
    ackReports,         \* the acks of the client the broker has yet to report
    clientSeen,         \* the stream sequence numbers the client sink was given
    clientAcked         \* the stream sequence numbers the client has acked

vars == <<inflightPerStream, ackSyncCalls, ackSyncOK, newTasks, tpState, running,
          opCancelled, callerPC, request, callCancelled, returned, numCalls,
          numAccepted, handled, superseded, acked,
          reading, subLock, callbacks, wg, readerPC, readerCall, readerResult, numStarts,
          spawned, subPC, subMsg, numReads, alerts, forwarded, cleanups,
          pubPC, okChan, errChan, pubCancelled, pubResult, numPublishes,
          clock, schedule, starts, fires, cancelledSchedules, timerCancelled,
          started, dispLock, startPC, startResult, numDispStarts, ackPC, ackIn,
          ackReports, clientSeen, clientAcked>>

(***************************************************************************)
(* The nested inflight map.                                                *)
(***************************************************************************)
EmptyMap == [x \in {} |-> x]

MapPut(f, k, v) == [x \in DOMAIN f \cup {k} |-> IF x = k THEN v ELSE f[x]]
MapDelete(f, k) == [x \in DOMAIN f \ {k} |-> f[x]]

perStreamInflightMessages == [consumers |-> EmptyMap]
perConsumerInflightMessages == [inflight |-> EmptyMap]

\* The message stored under (stream, consumer, seq), NoMsg when there is none
Lookup(map, stream, consumer, seq) ==
    IF /\ stream \in DOMAIN map
       /\ consumer \in DOMAIN map[stream].consumers
       /\ seq \in DOMAIN map[stream].consumers[consumer].inflight
    THEN map[stream].consumers[consumer].inflight[seq]
    ELSE NoMsg

InflightKeys(map) ==
    {k \in AckIndications : Lookup(map, k.stream, k.consumer, k.seq) # NoMsg}

InflightMsgs(map) ==
    {Lookup(map, k.stream, k.consumer, k.seq) : k \in InflightKeys(map)}

(***************************************************************************)
(* The handlers' bodies, as functions of the map they work on.             *)
(***************************************************************************)
\* Mutant: the consumer check is missing
ConsumerMatchesAlways(consumer, msg) == TRUE

\* The consumer check of ProcessInflightMessage
ConsumerMatches(consumer, msg) == consumer = msg.consumer

\* Mutant: a record under a key already present does not overwrite
StoreInflightKeepFirst(inflight, msg) ==
    IF msg.seq \in DOMAIN inflight THEN inflight ELSE MapPut(inflight, msg.seq, msg)

\* perConsumerRecords.inflight[meta.Sequence.Stream] = msg
StoreInflight(inflight, msg) == MapPut(inflight, msg.seq, msg)

\* ProcessInflightMessage: the map after recording msg, and the error returned
ProcessInflightMessage(map, consumer, msg) ==
    IF ~msg.meta
    THEN [map |-> map, err |-> ErrMetadata]
    ELSE IF ~ConsumerMatches(consumer, msg)
    THEN [map |-> map, err |-> ErrConsumerMismatch(consumer, msg.consumer)]
    ELSE LET withStream ==
                 IF msg.stream \in DOMAIN map
                 THEN map
                 ELSE MapPut(map, msg.stream, perStreamInflightMessages)
             perStreamRecords == withStream[msg.stream]
             withConsumer ==
                 IF consumer \in DOMAIN perStreamRecords.consumers
                 THEN perStreamRecords.consumers
                 ELSE MapPut(perStreamRecords.consumers, consumer,
                             perConsumerInflightMessages)
             perConsumerRecords == withConsumer[consumer]
             inflight == StoreInflight(perConsumerRecords.inflight, msg)
         IN  [map |-> MapPut(withStream, msg.stream,
                        [consumers |-> MapPut(withConsumer, consumer,
                                          [inflight |-> inflight])]),
              err |-> NoError]

\* The map with the per consumer records of (stream, consumer) replaced
WithInflight(map, stream, consumer, inflight) ==
    MapPut(map, stream,
           [consumers |-> MapPut(map[stream].consumers, consumer,
                                 [inflight |-> inflight])])

\* Mutant: a missing stream is reported as a missing message
NoStreamRecordsAsMessage(map, ack) ==
    [map |-> map, err |-> ErrNoMessage(ack.seq, ack.consumer, ack.stream), ackSync |-> 0]

\* ProcessMsgACK finds no per stream records for the ack's stream
NoStreamRecords(map, ack) ==
    [map |-> map, err |-> ErrNoStream(ack.stream), ackSync |-> 0]

\* Mutant: the lookup of the per consumer records creates them when missing,
\* the way ProcessInflightMessage does
NoConsumerRecordsCreated(map, ack) ==
    [map |-> MapPut(map, ack.stream,
                 [consumers |-> MapPut(map[ack.stream].consumers, ack.consumer,
                                       perConsumerInflightMessages)]),
     err |-> ErrNoMessage(ack.seq, ack.consumer, ack.stream),
     ackSync |-> 0]

\* ProcessMsgACK finds no per consumer records for the ack's consumer
NoConsumerRecords(map, ack) ==
    [map |-> map, err |-> ErrNoConsumer(ack.consumer, ack.stream), ackSync |-> 0]

\* Mutant: the message is not looked up by the ack's stream sequence number
StoredMessageAny(inflight, ack) ==
    IF DOMAIN inflight = {} THEN NoMsg
    ELSE inflight[CHOOSE n \in DOMAIN inflight : \A o \in DOMAIN inflight : n <= o]

\* The message ProcessMsgACK is to ack: perConsumerRecords.inflight[ack.SeqNum.Stream]
StoredMessage(inflight, ack) ==
    IF ack.seq \in DOMAIN inflight THEN inflight[ack.seq] ELSE NoMsg

\* Mutant: the entry is deleted before AckSync is known to have worked
AckSyncFailedEvict(map, ack, msg) ==
    [map |-> WithInflight(map, ack.stream, ack.consumer,
                 MapDelete(map[ack.stream].consumers[ack.consumer].inflight, ack.seq)),
     err |-> ErrAckSync,
     ackSync |-> msg.id]

\* msg.AckSync() returned an error: the error is returned, nothing is deleted
AckSyncFailed(map, ack, msg) ==
    [map |-> map, err |-> ErrAckSync, ackSync |-> msg.id]

\* Mutant: the delete after a successful AckSync is missing
AckSyncDoneKeep(map, ack, msg) ==
    [map |-> map, err |-> NoError, ackSync |-> msg.id]

\* msg.AckSync() returned nil: the entry is deleted
AckSyncDone(map, ack, msg) ==
    [map |-> WithInflight(map, ack.stream, ack.consumer,
                 MapDelete(map[ack.stream].consumers[ack.consumer].inflight, ack.seq)),
     err |-> NoError,
     ackSync |-> msg.id]

\* ProcessMsgACK: the map after handling ack, the error returned and the handle
\* AckSync was called on (0 when it was not called); ackSyncWorks is the
\* broker's answer to AckSync
ProcessMsgACK(map, ack, ackSyncWorks) ==
    IF ack.stream \notin DOMAIN map
    THEN NoStreamRecords(map, ack)
    ELSE IF ack.consumer \notin DOMAIN map[ack.stream].consumers
    THEN NoConsumerRecords(map, ack)
    ELSE LET perConsumerRecords == map[ack.stream].consumers[ack.consumer]
             msg == StoredMessage(perConsumerRecords.inflight, ack)
         IN  IF msg = NoMsg
             THEN [map |-> map,
                   err |-> ErrNoMessage(ack.seq, ack.consumer, ack.stream),
                   ackSync |-> 0]
             ELSE IF ~ackSyncWorks
             THEN AckSyncFailed(map, ack, msg)
             ELSE AckSyncDone(map, ack, msg)

(***************************************************************************)
(* Requests, queued tasks and handler executions.                          *)
(***************************************************************************)
jsInflightCtrlRecordNewMsg(id, blocking, message) ==
    [id |-> id, kind |-> "jsInflightCtrlRecordNewMsg", blocking |-> blocking,
     message |-> message, ack |-> NoAck]
jsInflightCtrlRecordACK(id, blocking, ack) ==
    [id |-> id, kind |-> "jsInflightCtrlRecordACK", blocking |-> blocking,
     message |-> NoMsg, ack |-> ack]
NoRequest ==
    [id |-> 0, kind |-> "none", blocking |-> FALSE, message |-> NoMsg, ack |-> NoAck]

\* The key a request is about
RequestKey(r) ==
    IF r.kind = "jsInflightCtrlRecordNewMsg" THEN MsgKey(r.message) ELSE r.ack

\* A queued task: the request and its position in the order of acceptance
Task(r, order) == [request |-> r, order |-> order]

\* A handler execution: "handling" before the handler body ran, "replying"
\* while the handler is in resultCB, sending err on the result channel
Execution(task, phase, err) == [task |-> task, phase |-> phase, err |-> err]

Handled(task, err, ackSync, before) ==
    [order |-> task.order, request |-> task.request, err |-> err,
     ackSync |-> ackSync, before |-> before]
NoneHandled ==
    [order |-> 0, request |-> NoRequest, err |-> NoError, ackSync |-> 0,
     before |-> NoMsg]

\* The messages a caller may hand to RecordInflightMessage with handle id:
\* for the tracker's consumer on stream S with every sequence number and on
\* stream T, for another consumer, and one without metadata
MessagesWithId(id) ==
    {Msg(id, "S", TrackerConsumer, n) : n \in SeqNums}
    \cup {Msg(id, "T", TrackerConsumer, 1), Msg(id, "S", "X", 1), MsgNoMeta(id)}

\* The ack indications handed to HandlerMsgACK: the keys of those messages
TrackerAckIndications ==
    {AckIndication("S", TrackerConsumer, n) : n \in SeqNums}
    \cup {AckIndication("T", TrackerConsumer, 1), AckIndication("S", "X", 1)}

\* The inputs under SpecQueue, which is about the queue: one key
QueueMessagesWithId(id) == {Msg(id, "S", TrackerConsumer, 1)}
QueueAckIndications == {AckIndication("S", TrackerConsumer, 1)}
\* Under SpecQueue c1 records the way the dispatcher's forward callback does
\* (blocking=false) and c2 hands in ack indications and waits for the result
QueueRecorders == {"c1"}
QueueAckers == {"c2"}
QueueBlocking(c) == c \in QueueAckers
TrackerCallers == {"c1"}

\* A schedule of the interval timer: the Start call it comes from, its period,
\* fire_once and the time of its next tick
Schedule(id, period, fireOnce, due) ==
    [id |-> id, period |-> period, fireOnce |-> fireOnce, due |-> due]
NoSchedule == Schedule(0, 0, FALSE, 0)

Init ==
    /\ inflightPerStream = EmptyMap
    /\ ackSyncCalls = [h \in CallIds |-> 0]
    /\ ackSyncOK = [h \in CallIds |-> 0]
    /\ newTasks = <<>>
    /\ tpState = "created"
    /\ running = {}
    /\ opCancelled = FALSE
    /\ callerPC = [c \in Callers |-> "idle"]
    /\ request = [c \in Callers |-> NoRequest]
    /\ callCancelled = [c \in Callers |-> FALSE]
    /\ returned = [c \in Callers |-> Pending]
    /\ numCalls = 0
    /\ numAccepted = 0
    /\ handled = NoneHandled
    /\ superseded = {}
    /\ acked = {}
    /\ reading = FALSE
    /\ subLock = ""
    /\ callbacks = 0
    /\ wg = 0
    /\ readerPC = [s \in Starters |-> "idle"]
    /\ readerCall = [s \in Starters |-> 0]
    /\ readerResult = [s \in Starters |-> Pending]
    /\ numStarts = 0
    /\ spawned = 0
    /\ subPC = "none"
    /\ subMsg = NoMsg
    /\ numReads = 0
    /\ alerts = <<>>
    /\ forwarded = {}
    /\ cleanups = <<>>
    /\ pubPC = "idle"
    /\ okChan = "empty"
    /\ errChan = "empty"
    /\ pubCancelled = FALSE
    /\ pubResult = Pending
    /\ numPublishes = 0
    /\ clock = 0
    /\ schedule = NoSchedule
    /\ starts = <<>>
    /\ fires = <<>>
    /\ cancelledSchedules = {}
    /\ timerCancelled = FALSE
    /\ started = FALSE
    /\ dispLock = ""
    /\ startPC = [d \in Starters |-> "idle"]
    /\ startResult = [d \in Starters |-> Pending]
    /\ numDispStarts = 0
    /\ ackPC = "none"
    /\ ackIn = NoAck
    /\ ackReports = {}
    /\ clientSeen = {}
    /\ clientAcked = {}

trackerVars == <<inflightPerStream, ackSyncCalls, ackSyncOK, handled, superseded, acked>>
workerVars == <<tpState, running>>
callerVars == <<callerPC, request, callCancelled, returned, numCalls>>
\* The subscriber object, the StartReading calls, the read loop and its effects
subscriberVars == <<reading, subLock, callbacks, readerPC, readerCall, readerResult, numStarts,
                    spawned, subPC, subMsg, numReads, alerts, forwarded, cleanups>>
\* A Publish call and the PubAckFuture it waits on
publisherVars == <<pubPC, okChan, errChan, pubCancelled, pubResult, numPublishes>>
\* What the tracker and its task processor never touch
\* The interval timer and the time
timerVars == <<clock, schedule, starts, fires, cancelledSchedules, timerCancelled>>
\* The dispatcher, its Start calls, the ack receiver's worker and the client
dispatcherVars == <<started, dispLock, startPC, startResult, numDispStarts, ackPC,
                    ackIn, ackReports, clientSeen, clientAcked>>
transportVars == <<subscriberVars, wg, publisherVars, timerVars, dispatcherVars>>

(***************************************************************************)
(* Callers: RecordInflightMessage and HandlerMsgACK.                       *)
(***************************************************************************)
\* The call builds its request and reaches tp.Submit
BeginCall(c, r, limit) ==
    /\ callerPC[c] = "idle"
    /\ numCalls < limit
    /\ numCalls' = numCalls + 1
    /\ request' = [request EXCEPT ![c] = r]
    /\ callerPC' = [callerPC EXCEPT ![c] = "submitting"]
    /\ callCancelled' = [callCancelled EXCEPT ![c] = FALSE]
    /\ returned' = [returned EXCEPT ![c] = Pending]
    /\ UNCHANGED <<trackerVars, workerVars, newTasks, opCancelled, numAccepted>>

RecordInflightMessage(c, msg, blocking, limit) ==
    BeginCall(c, jsInflightCtrlRecordNewMsg(numCalls + 1, blocking, msg), limit)

HandlerMsgACK(c, ack, blocking, limit) ==
    BeginCall(c, jsInflightCtrlRecordACK(numCalls + 1, blocking, ack), limit)

\* The call returns err to its caller
Return(c, err) ==
    /\ returned' = [returned EXCEPT ![c] = err]
    /\ callerPC' = [callerPC EXCEPT ![c] = "idle"]
    /\ request' = [request EXCEPT ![c] = NoRequest]
    /\ callCancelled' = [callCancelled EXCEPT ![c] = FALSE]
    /\ UNCHANGED numCalls

\* Mutant: the select returns the context's error without waiting for Done
ContextDoneAlways(c) == TRUE

\* callCtxt.Done() is ready
ContextDone(c) == callCancelled[c]

\* The context of the call in progress is cancelled
CancelCall(c) ==
    /\ callerPC[c] \in {"submitting", "waiting"}
    /\ ~callCancelled[c]
    /\ callCancelled' = [callCancelled EXCEPT ![c] = TRUE]
    /\ UNCHANGED <<trackerVars, workerVars, newTasks, opCancelled, numAccepted,
                   callerPC, request, returned, numCalls>>

(***************************************************************************)
(* Task processor: Submit, StartEventLoop and the worker loop.             *)
(***************************************************************************)
\* The queue can take one more task
HasSpace(queue) == Len(queue) < QueueCapacity

\* Submit accepts the task; a non-blocking call returns nil at once
SubmitAccepted(c) ==
    /\ callerPC[c] = "submitting"
    /\ tpState # "exited"
    /\ HasSpace(newTasks)
    /\ newTasks' = Append(newTasks, Task(request[c], numAccepted + 1))
    /\ numAccepted' = numAccepted + 1
    /\ IF request[c].blocking
       THEN /\ callerPC' = [callerPC EXCEPT ![c] = "waiting"]
            /\ UNCHANGED <<request, callCancelled, returned, numCalls>>
       ELSE Return(c, NoError)
    /\ UNCHANGED <<trackerVars, workerVars, opCancelled>>

\* Submit gives up because the caller's context is cancelled
SubmitCancelled(c) ==
    /\ callerPC[c] = "submitting"
    /\ ContextDone(c)
    /\ Return(c, ErrContext)
    /\ UNCHANGED <<trackerVars, workerVars, newTasks, opCancelled, numAccepted>>

\* Submit finds that the processor has exited
SubmitClosed(c) ==
    /\ callerPC[c] = "submitting"
    /\ tpState = "exited"
    /\ Return(c, ErrQueueClosed)
    /\ UNCHANGED <<trackerVars, workerVars, newTasks, opCancelled, numAccepted>>

StartEventLoop ==
    /\ tpState = "created"
    /\ tpState' = "running"
    /\ UNCHANGED <<trackerVars, callerVars, running, newTasks, opCancelled, numAccepted>>

\* The worker is between two handlers
WorkerFree(executions) == executions = {}

\* Mutant: the worker takes the task accepted last
NewestTask(queue) == queue[Len(queue)]

\* The task the worker takes off the queue
NextTask(queue) == Head(queue)
RestTasks(queue) == Tail(queue)

TakeTask ==
    /\ tpState = "running"
    /\ WorkerFree(running)
    /\ newTasks # <<>>
    /\ running' = running \cup {Execution(NextTask(newTasks), "handling", NoError)}
    /\ newTasks' = RestTasks(newTasks)
    /\ UNCHANGED <<trackerVars, callerVars, tpState, opCancelled, numAccepted>>

CancelScope ==
    /\ ~opCancelled
    /\ opCancelled' = TRUE
    /\ UNCHANGED <<trackerVars, callerVars, workerVars, newTasks, numAccepted>>

\* The worker sees the cancelled scope, drops what is queued and exits
WorkerExit ==
    /\ tpState = "running"
    /\ WorkerFree(running)
    /\ opCancelled
    /\ tpState' = "exited"
    /\ newTasks' = <<>>
    /\ UNCHANGED <<trackerVars, callerVars, running, opCancelled, numAccepted>>

(***************************************************************************)
(* Handlers run by the worker.                                             *)
(***************************************************************************)
\* What remains of execution x once the handler body returned err: a blocking
\* request goes on to resultCB(err), a non-blocking one is finished
AfterHandler(x, err) ==
    IF x.task.request.blocking
    THEN (running \ {x}) \cup {Execution(x.task, "replying", err)}
    ELSE running \ {x}

processInflightMessage(x) ==
    /\ x \in running
    /\ x.phase = "handling"
    /\ x.task.request.kind = "jsInflightCtrlRecordNewMsg"
    /\ LET msg == x.task.request.message
           res == ProcessInflightMessage(inflightPerStream, TrackerConsumer, msg)
           before == Lookup(inflightPerStream, msg.stream, msg.consumer, msg.seq)
       IN  /\ inflightPerStream' = res.map
           /\ handled' = Handled(x.task, res.err, 0, before)
           /\ superseded' =
                  IF res.err = NoError /\ before # NoMsg
                  THEN superseded \cup {before}
                  ELSE superseded
           /\ running' = AfterHandler(x, res.err)
    /\ UNCHANGED <<ackSyncCalls, ackSyncOK, acked, callerVars, tpState, newTasks,
                   opCancelled, numAccepted>>

processMsgACK(x) ==
    /\ x \in running
    /\ x.phase = "handling"
    /\ x.task.request.kind = "jsInflightCtrlRecordACK"
    /\ \E ackSyncWorks \in BOOLEAN :
        LET ack == x.task.request.ack
            res == ProcessMsgACK(inflightPerStream, ack, ackSyncWorks)
            before == Lookup(inflightPerStream, ack.stream, ack.consumer, ack.seq)
        IN  /\ inflightPerStream' = res.map
            /\ handled' = Handled(x.task, res.err, res.ackSync, before)
            /\ ackSyncCalls' =
                   IF res.ackSync = 0 THEN ackSyncCalls
                   ELSE [ackSyncCalls EXCEPT ![res.ackSync] = @ + 1]
            /\ ackSyncOK' =
                   IF res.ackSync = 0 \/ ~ackSyncWorks THEN ackSyncOK
                   ELSE [ackSyncOK EXCEPT ![res.ackSync] = @ + 1]
            /\ acked' =
                   IF res.ackSync = 0 \/ ~ackSyncWorks THEN acked
                   ELSE acked \cup {before}
            /\ running' = AfterHandler(x, res.err)
    /\ UNCHANGED <<superseded, callerVars, tpState, newTasks, opCancelled, numAccepted>>

(***************************************************************************)
(* The blocking caller's select on its result channel and its context.     *)
(***************************************************************************)
\* The executions sending on the result channel of caller c's current call
Replies(c) ==
    {x \in running : x.phase = "replying" /\ x.task.request.id = request[c].id}

\* resultChan <- err in the handler meets <-resultChan in the caller
ReceiveResult(c) ==
    /\ callerPC[c] = "waiting"
    /\ \E x \in Replies(c) :
        /\ running' = running \ {x}
        /\ Return(c, x.err)
    /\ UNCHANGED <<trackerVars, tpState, newTasks, opCancelled, numAccepted>>

\* <-callCtxt.Done() in the caller
AwaitCancelled(c) ==
    /\ callerPC[c] = "waiting"
    /\ ContextDone(c)
    /\ Return(c, ErrContext)
    /\ UNCHANGED <<trackerVars, workerVars, newTasks, opCancelled, numAccepted>>

\* The steps of the task processor, of its worker and of calls in progress
Run ==
    \/ \E c \in Callers : CancelCall(c) /\ UNCHANGED transportVars
    \/ \E c \in Callers : SubmitAccepted(c) /\ UNCHANGED transportVars
    \/ \E c \in Callers : SubmitCancelled(c) /\ UNCHANGED transportVars
    \/ \E c \in Callers : SubmitClosed(c) /\ UNCHANGED transportVars
    \/ StartEventLoop /\ UNCHANGED transportVars
    \/ TakeTask /\ UNCHANGED transportVars
    \/ \E x \in running : processInflightMessage(x) /\ UNCHANGED transportVars
    \/ \E x \in running : processMsgACK(x) /\ UNCHANGED transportVars
    \/ \E c \in Callers : ReceiveResult(c) /\ UNCHANGED transportVars
    \/ \E c \in Callers : AwaitCancelled(c) /\ UNCHANGED transportVars
    \/ CancelScope /\ UNCHANGED transportVars
    \/ WorkerExit /\ UNCHANGED transportVars

\* One caller making blocking calls, which its context may cut short, with
\* every kind of message and ack indication
Next ==
    \/ \E c \in TrackerCallers :
          \E msg \in MessagesWithId(numCalls + 1) :
              RecordInflightMessage(c, msg, TRUE, MaxCalls) /\ UNCHANGED transportVars
    \/ \E c \in TrackerCallers :
          \E ack \in TrackerAckIndications :
              HandlerMsgACK(c, ack, TRUE, MaxCalls) /\ UNCHANGED transportVars
    \/ Run

Spec == Init /\ [][Next]_vars

\* Concurrent callers, more calls than the queue holds, one key
NextQueue ==
    \/ \E c \in QueueRecorders :
          \E msg \in QueueMessagesWithId(numCalls + 1) :
              RecordInflightMessage(c, msg, QueueBlocking(c), MaxQueueCalls)
              /\ UNCHANGED transportVars
    \/ \E c \in QueueAckers :
          \E ack \in QueueAckIndications :
              HandlerMsgACK(c, ack, QueueBlocking(c), MaxQueueCalls)
              /\ UNCHANGED transportVars
    \/ Run

SpecQueue == Init /\ [][NextQueue]_vars

(***************************************************************************)
(* Push subscriber: StartReading and the read loop it spawns.              *)
(***************************************************************************)
readLoopVars == <<subPC, subMsg, numReads, alerts, forwarded, cleanups>>
starterVars == <<readerPC, readerCall, readerResult, numStarts>>

\* StartReading is called: UpdateLogTags copies the component's log tags
\* (strings only, the copy cannot fail) and the call goes for r.lock
StartReadingCall(s) ==
    /\ readerPC[s] = "idle"
    /\ numStarts < MaxStarts
    /\ numStarts' = numStarts + 1
    /\ readerCall' = [readerCall EXCEPT ![s] = numStarts + 1]
    /\ readerPC' = [readerPC EXCEPT ![s] = "locking"]
    /\ readerResult' = [readerResult EXCEPT ![s] = Pending]
    /\ UNCHANGED <<reading, subLock, callbacks, wg, spawned, readLoopVars>>

\* r.lock.Lock()
StartReadingLock(s) ==
    /\ readerPC[s] = "locking"
    /\ subLock = ""
    /\ subLock' = s
    /\ readerPC' = [readerPC EXCEPT ![s] = "locked"]
    /\ UNCHANGED <<reading, callbacks, wg, readerCall, readerResult, numStarts,
                   spawned, readLoopVars>>

\* Mutant: the flag counts only while the read loop is alive
AlreadyReadingWhileLoopRuns == reading /\ subPC # "done"

\* if r.reading
AlreadyReading == reading

\* The body of StartReading under the lock, and the deferred Unlock: either
\* 'already reading', or wg.Add(1), the callbacks, the flag and the goroutine
StartReadingLocked(s) ==
    /\ readerPC[s] = "locked"
    /\ IF AlreadyReading
       THEN /\ readerResult' = [readerResult EXCEPT ![s] = ErrAlreadyReading]
            /\ UNCHANGED <<wg, callbacks, reading, spawned, subPC>>
       ELSE /\ wg' = wg + 1
            /\ callbacks' = readerCall[s]
            /\ reading' = TRUE
            /\ spawned' = spawned + 1
            /\ subPC' = "nextMsg"
            /\ readerResult' = [readerResult EXCEPT ![s] = NoError]
    /\ subLock' = ""
    /\ readerPC' = [readerPC EXCEPT ![s] = "idle"]
    /\ UNCHANGED <<readerCall, numStarts, subMsg, numReads, alerts, forwarded, cleanups>>

\* The message the subscription hands out next: a new handle of the next
\* stream sequence number
NextDelivery == Msg(numReads + 1, "S", TrackerConsumer, numReads + 1)

\* r.sub.NextMsgWithContext(ctxt) returns a message, the subscription having
\* at most limit messages to hand out
NextMsgUpTo(limit) ==
    /\ subPC = "nextMsg"
    /\ ~opCancelled
    /\ numReads < limit
    /\ numReads' = numReads + 1
    /\ subMsg' = NextDelivery
    /\ subPC' = "forward"
    /\ UNCHANGED <<reading, subLock, callbacks, wg, starterVars, spawned, alerts,
                   forwarded, cleanups>>

NextMsg == NextMsgUpTo(MaxReads)

\* The error of a failed read: the context's once ctxt is cancelled, else the
\* broker's
ReadError == IF opCancelled THEN ErrContext ELSE ErrRead

\* Mutant: the loop reads on after a failed read
AfterReadErrorReadOn == "nextMsg"

\* break
AfterReadError == "drain"

\* r.sub.NextMsgWithContext(ctxt) returns an error: r.errorCB(err), break
ReadFails ==
    /\ subPC = "nextMsg"
    /\ alerts' = Append(alerts, ReadError)
    /\ subPC' = AfterReadError
    /\ UNCHANGED <<reading, subLock, callbacks, wg, starterVars, spawned, subMsg,
                   numReads, forwarded, cleanups>>

\* Mutant: a failed forward ends the loop
AfterForwardBreak(err) == IF err = NoError THEN "nextMsg" ELSE "drain"

\* Where the loop goes once r.forwardMsg returned err: to the next read
AfterForward(err) == "nextMsg"

\* Mutant: the error of a failed forward is only logged
ForwardAlertsNone(err) == alerts

\* if err := r.forwardMsg(newMsg, ctxt); err != nil { r.errorCB(err) }
ForwardAlerts(err) == IF err = NoError THEN alerts ELSE Append(alerts, err)

\* A call of r.forwardMsg: the message's handle, its stream sequence number
\* and the error returned
ForwardCall(msg, err) == [id |-> msg.id, seq |-> msg.seq, err |-> err]

\* r.forwardMsg(newMsg, ctxt), with the callback's result err
Forward(err) ==
    /\ subPC = "forward"
    /\ forwarded' = forwarded \cup {ForwardCall(subMsg, err)}
    /\ alerts' = ForwardAlerts(err)
    /\ subPC' = AfterForward(err)
    /\ UNCHANGED <<reading, subLock, callbacks, wg, starterVars, spawned, subMsg,
                   numReads, cleanups>>

Cleanup(op, ok) == [op |-> op, ok |-> ok]

\* Mutant: Unsubscribe is skipped when Drain failed
AfterDrainStopOnError(ok) == IF ok THEN "unsubscribe" ELSE "release"

\* The deferred call that follows the deferred Drain
AfterDrain(ok) == "unsubscribe"

\* defer r.sub.Drain(), the deferred call that runs first
Drain ==
    /\ subPC = "drain"
    /\ \E ok \in BOOLEAN :
        /\ cleanups' = Append(cleanups, Cleanup("Drain", ok))
        /\ subPC' = AfterDrain(ok)
    /\ UNCHANGED <<reading, subLock, callbacks, wg, starterVars, spawned, subMsg,
                   numReads, alerts, forwarded>>

\* defer r.sub.Unsubscribe()
Unsubscribe ==
    /\ subPC = "unsubscribe"
    /\ \E ok \in BOOLEAN :
        /\ cleanups' = Append(cleanups, Cleanup("Unsubscribe", ok))
        /\ subPC' = "release"
    /\ UNCHANGED <<reading, subLock, callbacks, wg, starterVars, spawned, subMsg,
                   numReads, alerts, forwarded>>

\* Mutant: the goroutine exits without wg.Done()
ReleaseWithoutDone ==
    /\ subPC = "release"
    /\ wg' = wg
    /\ subPC' = "done"
    /\ UNCHANGED <<reading, subLock, callbacks, starterVars, spawned, subMsg,
                   numReads, alerts, forwarded, cleanups>>

\* defer wg.Done(), the deferred call that runs last
Release ==
    /\ subPC = "release"
    /\ wg' = wg - 1
    /\ subPC' = "done"
    /\ UNCHANGED <<reading, subLock, callbacks, starterVars, spawned, subMsg,
                   numReads, alerts, forwarded, cleanups>>

\* What a subscriber on its own leaves alone
trackerOnlyVars == <<trackerVars, workerVars, callerVars, newTasks, numAccepted>>
subscriberOnly == <<trackerOnlyVars, opCancelled, publisherVars, timerVars, dispatcherVars>>

\* The steps of the read loop goroutine, the forward callback's result left open
ReadLoop ==
    \/ NextMsg /\ UNCHANGED subscriberOnly
    \/ ReadFails /\ UNCHANGED subscriberOnly
    \/ \E err \in {NoError, ErrForward} : Forward(err) /\ UNCHANGED subscriberOnly
    \/ Drain /\ UNCHANGED subscriberOnly
    \/ Unsubscribe /\ UNCHANGED subscriberOnly
    \/ Release /\ UNCHANGED subscriberOnly

\* StartReading calls from two goroutines, the read loop and the scope
NextSubscriber ==
    \/ \E s \in Starters : StartReadingCall(s) /\ UNCHANGED subscriberOnly
    \/ \E s \in Starters : StartReadingLock(s) /\ UNCHANGED subscriberOnly
    \/ \E s \in Starters : StartReadingLocked(s) /\ UNCHANGED subscriberOnly
    \/ ReadLoop
    \/ CancelScope /\ UNCHANGED transportVars

\* The goroutine is scheduled, and every call it makes returns
SpecSubscriber == Init /\ [][NextSubscriber]_vars /\ WF_vars(ReadLoop)

(***************************************************************************)
(* Publisher: Publish and the PubAckFuture of its async publish.           *)
(***************************************************************************)
publisherOnly == <<trackerOnlyVars, opCancelled, subscriberVars, wg, timerVars,
                   dispatcherVars>>

\* Publish is called: UpdateLogTags, then PublishAsync is about to be issued
PublishCall ==
    /\ pubPC = "idle"
    /\ numPublishes < MaxPublishes
    /\ numPublishes' = numPublishes + 1
    /\ pubPC' = "publishing"
    /\ okChan' = "empty"
    /\ errChan' = "empty"
    /\ pubCancelled' = FALSE
    /\ pubResult' = Pending
    /\ UNCHANGED publisherOnly

\* Publish returns err
PublishReturn(err) ==
    /\ pubResult' = err
    /\ pubPC' = "idle"
    /\ UNCHANGED <<okChan, errChan, pubCancelled, numPublishes>>
    /\ UNCHANGED publisherOnly

\* PublishAsync returns an error: Publish returns it
PublishAsyncFails ==
    /\ pubPC = "publishing"
    /\ PublishReturn(ErrPublish)

\* PublishAsync returns the PubAckFuture: Publish enters its select
PublishAsyncIssued ==
    /\ pubPC = "publishing"
    /\ pubPC' = "awaiting"
    /\ UNCHANGED <<okChan, errChan, pubCancelled, pubResult, numPublishes>>
    /\ UNCHANGED publisherOnly

\* The broker has neither acked nor nacked the publish
Unresolved == okChan # "ack" /\ errChan # "nack"

\* The broker acks the publish: the ack is sent on the Ok channel
BrokerAck ==
    /\ pubPC = "awaiting"
    /\ Unresolved
    /\ okChan = "empty"
    /\ okChan' = "ack"
    /\ UNCHANGED <<pubPC, errChan, pubCancelled, pubResult, numPublishes>>
    /\ UNCHANGED publisherOnly

\* The broker rejects the publish: its error is sent on the Err channel
BrokerNack ==
    /\ pubPC = "awaiting"
    /\ Unresolved
    /\ errChan = "empty"
    /\ errChan' = "nack"
    /\ UNCHANGED <<pubPC, okChan, pubCancelled, pubResult, numPublishes>>
    /\ UNCHANGED publisherOnly

\* The Ok channel is closed with nothing in it
CloseOk ==
    /\ pubPC = "awaiting"
    /\ okChan = "empty"
    /\ okChan' = "closed"
    /\ UNCHANGED <<pubPC, errChan, pubCancelled, pubResult, numPublishes>>
    /\ UNCHANGED publisherOnly

\* The Err channel is closed with nothing in it
CloseErr ==
    /\ pubPC = "awaiting"
    /\ errChan = "empty"
    /\ errChan' = "closed"
    /\ UNCHANGED <<pubPC, okChan, pubCancelled, pubResult, numPublishes>>
    /\ UNCHANGED publisherOnly

\* The context of the Publish call is cancelled
CancelPublish ==
    /\ pubPC \in {"publishing", "awaiting"}
    /\ ~pubCancelled
    /\ pubCancelled' = TRUE
    /\ UNCHANGED <<pubPC, okChan, errChan, pubResult, numPublishes>>
    /\ UNCHANGED publisherOnly

\* Mutant: the closed Ok channel is read as an ack
OkResultUnchecked == NoError

\* case goodSig, ok := <-ack.Ok(): nil, or the channel failure when !ok
OkResult == IF okChan = "ack" THEN NoError ELSE ErrOkClosed

\* case txErr, ok := <-ack.Err(): the broker's error, or the channel failure
ErrResult == IF errChan = "nack" THEN ErrNack ELSE ErrErrClosed

\* The select takes the Ok case
SelectOk ==
    /\ pubPC = "awaiting"
    /\ okChan # "empty"
    /\ PublishReturn(OkResult)

\* The select takes the Err case
SelectErr ==
    /\ pubPC = "awaiting"
    /\ errChan # "empty"
    /\ PublishReturn(ErrResult)

\* The select takes case <-ctxt.Done()
SelectDone ==
    /\ pubPC = "awaiting"
    /\ pubCancelled
    /\ PublishReturn(ErrContext)

NextPublisher ==
    \/ PublishCall
    \/ PublishAsyncFails
    \/ PublishAsyncIssued
    \/ BrokerAck
    \/ BrokerNack
    \/ CloseOk
    \/ CloseErr
    \/ CancelPublish
    \/ SelectOk
    \/ SelectErr
    \/ SelectDone

SpecPublisher == Init /\ [][NextPublisher]_vars

(***************************************************************************)
(* IntervalTimer: Start, the ticker it spawns and the timer's scope.       *)
(***************************************************************************)
timerOnly == <<trackerOnlyVars, opCancelled, subscriberVars, wg, publisherVars,
               dispatcherVars>>

Periods == 1..MaxPeriod

\* The schedules that Start cancels: the prior one, when there is one
PriorSchedule == IF schedule = NoSchedule THEN {} ELSE {schedule.id}

\* Start(period, cb, fireOnce): cancels any prior schedule, then spawns the
\* ticker of the new one, which first waits one period
TimerStart(period, fireOnce) ==
    /\ ~timerCancelled
    /\ Len(starts) < MaxTimerStarts
    /\ starts' = Append(starts, [period |-> period, fireOnce |-> fireOnce, at |-> clock])
    /\ cancelledSchedules' = cancelledSchedules \cup PriorSchedule
    /\ schedule' = Schedule(Len(starts) + 1, period, fireOnce, clock + period)
    /\ UNCHANGED <<clock, fires, timerCancelled>>
    /\ UNCHANGED timerOnly

\* Time passes, but not past a tick that is due
Tick ==
    /\ clock < MaxTime
    /\ schedule # NoSchedule => schedule.due > clock
    /\ clock' = clock + 1
    /\ UNCHANGED <<schedule, starts, fires, cancelledSchedules, timerCancelled>>
    /\ UNCHANGED timerOnly

\* Mutant: the ticker goes on after the tick of a one-shot schedule
AfterFireRepeats(sch) == [sch EXCEPT !.due = @ + sch.period]

\* The schedule after its tick: none if fire_once, else the next period
AfterFire(sch) ==
    IF sch.fireOnce THEN NoSchedule ELSE [sch EXCEPT !.due = @ + sch.period]

\* The period has elapsed: the ticker invokes cb(); the error cb may return
\* is logged and changes nothing
Fire ==
    /\ schedule # NoSchedule
    /\ schedule.due = clock
    /\ fires' = Append(fires, [id |-> schedule.id, at |-> clock])
    /\ schedule' = AfterFire(schedule)
    /\ UNCHANGED <<clock, starts, cancelledSchedules, timerCancelled>>
    /\ UNCHANGED timerOnly

\* The timer's scope is cancelled: the ticker stops
TimerScopeCancelled ==
    /\ ~timerCancelled
    /\ timerCancelled' = TRUE
    /\ cancelledSchedules' = cancelledSchedules \cup PriorSchedule
    /\ schedule' = NoSchedule
    /\ UNCHANGED <<clock, starts, fires>>
    /\ UNCHANGED timerOnly

NextTimer ==
    \/ \E period \in Periods : \E fireOnce \in BOOLEAN : TimerStart(period, fireOnce)
    \/ Tick
    \/ Fire
    \/ TimerScopeCancelled

SpecTimer == Init /\ [][NextTimer]_vars

(***************************************************************************)
(* Push message dispatcher: Start, the three workers it starts on the      *)
(* shared scope and wait-group, the client sink and the client's acks.     *)
(* The subscriber's read loop makes its RecordInflightMessage calls as     *)
(* caller "c1", the ack receiver's worker its HandlerMsgACK calls as "c2". *)
(***************************************************************************)
startVars == <<started, dispLock, startPC, startResult, numDispStarts>>
ackVars == <<ackPC, ackIn, ackReports>>
clientVars == <<clientSeen, clientAcked>>
otherVars == <<publisherVars, timerVars>>

\* Start is called and goes for d.lock
DispatcherStartCall(d) ==
    /\ startPC[d] = "idle"
    /\ numDispStarts < MaxDispStarts
    /\ numDispStarts' = numDispStarts + 1
    /\ startPC' = [startPC EXCEPT ![d] = "locking"]
    /\ startResult' = [startResult EXCEPT ![d] = Pending]
    /\ UNCHANGED <<started, dispLock, ackVars, clientVars>>
    /\ UNCHANGED <<trackerOnlyVars, opCancelled, subscriberVars, wg, otherVars>>

\* Start returns err; the deferred d.lock.Unlock()
DispatcherStartReturn(d, err) ==
    /\ startResult' = [startResult EXCEPT ![d] = err]
    /\ startPC' = [startPC EXCEPT ![d] = "idle"]
    /\ dispLock' = ""
    /\ UNCHANGED numDispStarts

\* Mutant: the started flag is not looked at
AlreadyStartedNever == FALSE

\* if d.started
AlreadyStarted == started

\* d.lock.Lock() and the check of d.started
DispatcherStartLock(d) ==
    /\ startPC[d] = "locking"
    /\ dispLock = ""
    /\ IF AlreadyStarted
       THEN DispatcherStartReturn(d, ErrAlreadyStarted)
       ELSE /\ dispLock' = d
            /\ startPC' = [startPC EXCEPT ![d] = "tp"]
            /\ UNCHANGED <<startResult, numDispStarts>>
    /\ UNCHANGED <<started, ackVars, clientVars>>
    /\ UNCHANGED <<trackerOnlyVars, opCancelled, subscriberVars, wg, otherVars>>

\* d.msgTrackingTP.StartEventLoop(d.wg): the worker is spawned on the shared
\* wait-group
DispatcherStartTP(d) ==
    /\ startPC[d] = "tp"
    /\ StartEventLoop
    /\ wg' = wg + 1
    /\ startPC' = [startPC EXCEPT ![d] = "acks"]
    /\ UNCHANGED <<started, dispLock, startResult, numDispStarts, ackVars, clientVars>>
    /\ UNCHANGED <<subscriberVars, otherVars>>

\* StartEventLoop fails, the task processor having been started before
DispatcherStartTPFails(d) ==
    /\ startPC[d] = "tp"
    /\ tpState # "created"
    /\ DispatcherStartReturn(d, ErrAlreadyStarted)
    /\ UNCHANGED <<started, ackVars, clientVars>>
    /\ UNCHANGED <<trackerOnlyVars, opCancelled, subscriberVars, wg, otherVars>>

\* d.ackWatcher.SubscribeForACKs(d.wg, d.optContext, ...): the ack receiver's
\* worker is spawned on the shared wait-group, or the subscription fails
DispatcherStartACKs(d, ok) ==
    /\ startPC[d] = "acks"
    /\ IF ok
       THEN /\ ackPC' = "nextAck"
            /\ wg' = wg + 1
            /\ startPC' = [startPC EXCEPT ![d] = "sub"]
            /\ UNCHANGED <<dispLock, startResult, numDispStarts>>
       ELSE /\ DispatcherStartReturn(d, ErrSubscribeForACKs)
            /\ UNCHANGED <<ackPC, wg>>
    /\ UNCHANGED <<started, ackIn, ackReports, clientVars>>
    /\ UNCHANGED <<trackerOnlyVars, opCancelled, subscriberVars, otherVars>>

\* d.subscriber.StartReading(...) is called
DispatcherStartSubscriber(d) ==
    /\ startPC[d] = "sub"
    /\ StartReadingCall(d)
    /\ startPC' = [startPC EXCEPT ![d] = "reading"]
    /\ UNCHANGED <<started, dispLock, startResult, numDispStarts, ackVars, clientVars>>
    /\ UNCHANGED <<trackerOnlyVars, opCancelled, otherVars>>

\* Mutant: d.started = true is missing
StartedAfterNever(err) == FALSE

\* d.started = true is reached only when StartReading returned nil
StartedAfter(err) == err = NoError

\* StartReading has returned: its error is returned, or d.started = true and nil
DispatcherStartDone(d) ==
    /\ startPC[d] = "reading"
    /\ readerPC[d] = "idle"
    /\ started' = StartedAfter(readerResult[d])
    /\ DispatcherStartReturn(d, readerResult[d])
    /\ UNCHANGED <<ackVars, clientVars>>
    /\ UNCHANGED <<trackerOnlyVars, opCancelled, subscriberVars, wg, otherVars>>

\* The forward callback of Start gives the message to the client sink:
\* msgOutput(msg, ctxt) returns nil, and the record comes next
ClientSinkTakes ==
    /\ subPC = "forward"
    /\ clientSeen' = clientSeen \cup {subMsg.seq}
    /\ subPC' = "record"
    /\ UNCHANGED <<reading, subLock, callbacks, wg, starterVars, spawned, subMsg,
                   numReads, alerts, forwarded, cleanups>>
    /\ UNCHANGED <<startVars, ackVars, clientAcked>>
    /\ UNCHANGED <<trackerOnlyVars, opCancelled, otherVars>>

\* The read loop gets err back from the forward callback
ForwardReturned(err) ==
    /\ forwarded' = forwarded \cup {ForwardCall(subMsg, err)}
    /\ alerts' = ForwardAlerts(err)
    /\ subPC' = AfterForward(err)
    /\ UNCHANGED <<reading, subLock, callbacks, wg, starterVars, spawned, subMsg,
                   numReads, cleanups>>

\* Mutant: the error of msgOutput is noted and the message recorded all the same
ClientSinkFailsRecorded ==
    /\ subPC = "forward"
    /\ forwarded' = forwarded \cup {ForwardCall(subMsg, ErrForward)}
    /\ subPC' = "record"
    /\ UNCHANGED <<reading, subLock, callbacks, wg, starterVars, spawned, subMsg,
                   numReads, alerts, cleanups>>
    /\ UNCHANGED <<startVars, ackVars, clientVars>>
    /\ UNCHANGED <<trackerOnlyVars, opCancelled, otherVars>>

\* msgOutput(msg, ctxt) returns an error: the forward callback returns it
\* without recording the message
ClientSinkFails ==
    /\ subPC = "forward"
    /\ ForwardReturned(ErrForward)
    /\ UNCHANGED <<startVars, ackVars, clientVars>>
    /\ UNCHANGED <<trackerOnlyVars, opCancelled, otherVars>>

\* Mutant: the forward callback waits for the tracker's answer
RecordBlockingAlways == TRUE

\* The blocking argument of the forward callback's RecordInflightMessage
RecordBlocking == FALSE

\* d.msgTracking.RecordInflightMessage(msg, false, ctxt), after msgOutput
RecordForwarded ==
    /\ subPC = "record"
    /\ RecordInflightMessage("c1", subMsg, RecordBlocking, MaxCalls + MaxQueueCalls)
    /\ subPC' = "recording"
    /\ UNCHANGED <<reading, subLock, callbacks, wg, starterVars, spawned, subMsg,
                   numReads, alerts, forwarded, cleanups>>
    /\ UNCHANGED <<dispatcherVars, otherVars>>

\* RecordInflightMessage has returned: the forward callback returns its error
RecordReturned ==
    /\ subPC = "recording"
    /\ callerPC["c1"] = "idle"
    /\ ForwardReturned(returned["c1"])
    /\ UNCHANGED <<startVars, ackVars, clientVars>>
    /\ UNCHANGED <<trackerOnlyVars, opCancelled, otherVars>>

\* The client acks a message it was given; the broker will report the ack
ClientAcks(n) ==
    /\ n \in clientSeen \ clientAcked
    /\ clientAcked' = clientAcked \cup {n}
    /\ ackReports' = ackReports \cup {AckIndication("S", TrackerConsumer, n)}
    /\ UNCHANGED <<startVars, ackPC, ackIn, clientSeen>>
    /\ UNCHANGED <<trackerOnlyVars, opCancelled, subscriberVars, wg, otherVars>>

\* The ack receiver's worker reads the next ack notification
NextAck(ai) ==
    /\ ackPC = "nextAck"
    /\ ~opCancelled
    /\ ai \in ackReports
    /\ ackReports' = ackReports \ {ai}
    /\ ackIn' = ai
    /\ ackPC' = "callback"
    /\ UNCHANGED <<startVars, clientVars>>
    /\ UNCHANGED <<trackerOnlyVars, opCancelled, subscriberVars, wg, otherVars>>

\* The read of the next ack notification fails, by the cancelled scope or at
\* the broker: the worker tears down and releases the wait-group
AckReceiverExit ==
    /\ ackPC = "nextAck"
    /\ ackPC' = "done"
    /\ wg' = wg - 1
    /\ UNCHANGED <<startVars, ackIn, ackReports, clientVars>>
    /\ UNCHANGED <<trackerOnlyVars, opCancelled, subscriberVars, otherVars>>

\* The callback of Start: d.msgTracking.HandlerMsgACK(ai, false, ctxt)
HandleAck ==
    /\ ackPC = "callback"
    /\ HandlerMsgACK("c2", ackIn, FALSE, MaxCalls + MaxQueueCalls)
    /\ ackPC' = "acking"
    /\ UNCHANGED <<startVars, ackIn, ackReports, clientVars>>
    /\ UNCHANGED <<subscriberVars, wg, otherVars>>

\* HandlerMsgACK has returned; its error is logged
AckHandled ==
    /\ ackPC = "acking"
    /\ callerPC["c2"] = "idle"
    /\ ackPC' = "nextAck"
    /\ UNCHANGED <<startVars, ackIn, ackReports, clientVars>>
    /\ UNCHANGED <<trackerOnlyVars, opCancelled, subscriberVars, wg, otherVars>>

\* The call's context is the shared scope, which is cancelled
ScopeReachesCall(c) == opCancelled /\ CancelCall(c)

\* The task processor's worker exits and releases the shared wait-group
DispatcherWorkerExit ==
    /\ WorkerExit
    /\ wg' = wg - 1
    /\ UNCHANGED <<subscriberVars, dispatcherVars, otherVars>>

\* The goroutines the dispatcher starts, and the calls they make
DispatcherWorkers ==
    \/ NextMsgUpTo(MaxDeliveries) /\ UNCHANGED subscriberOnly
    \/ ReadFails /\ UNCHANGED subscriberOnly
    \/ ClientSinkTakes
    \/ ClientSinkFails
    \/ RecordForwarded
    \/ RecordReturned
    \/ Drain /\ UNCHANGED subscriberOnly
    \/ Unsubscribe /\ UNCHANGED subscriberOnly
    \/ Release /\ UNCHANGED subscriberOnly
    \/ AckReceiverExit
    \/ HandleAck
    \/ AckHandled
    \/ \E ai \in AckIndications : NextAck(ai)
    \/ \E c \in Callers : ScopeReachesCall(c) /\ UNCHANGED transportVars
    \/ \E c \in Callers : SubmitAccepted(c) /\ UNCHANGED transportVars
    \/ \E c \in Callers : SubmitCancelled(c) /\ UNCHANGED transportVars
    \/ \E c \in Callers : SubmitClosed(c) /\ UNCHANGED transportVars
    \/ TakeTask /\ UNCHANGED transportVars
    \/ \E x \in running : processInflightMessage(x) /\ UNCHANGED transportVars
    \/ \E x \in running : processMsgACK(x) /\ UNCHANGED transportVars
    \/ DispatcherWorkerExit

\* The steps of the Start calls in progress
DispatcherStart ==
    \/ \E d \in Starters : DispatcherStartLock(d)
    \/ \E d \in Starters : DispatcherStartTP(d)
    \/ \E d \in Starters : DispatcherStartTPFails(d)
    \/ \E d \in Starters : \E ok \in BOOLEAN : DispatcherStartACKs(d, ok)
    \/ \E d \in Starters : DispatcherStartSubscriber(d)
    \/ \E d \in Starters : StartReadingLock(d) /\ UNCHANGED subscriberOnly
    \/ \E d \in Starters : StartReadingLocked(d) /\ UNCHANGED subscriberOnly
    \/ \E d \in Starters : DispatcherStartDone(d)

\* Start is called from two goroutines; the broker delivers, the client acks,
\* the shared scope is cancelled
NextDispatcher ==
    \/ \E d \in Starters : DispatcherStartCall(d)
    \/ DispatcherStart
    \/ DispatcherWorkers
    \/ \E n \in SeqNums : ClientAcks(n)
    \/ CancelScope /\ UNCHANGED transportVars

\* Every goroutine is scheduled, and every call into the broker, the client
\* sink and the callbacks returns
SpecDispatcher ==
    Init /\ [][NextDispatcher]_vars /\ WF_vars(DispatcherStart) /\ WF_vars(DispatcherWorkers)

(***************************************************************************)
(* The forward path of a started dispatcher on its own: one Start, then     *)
(* deliveries and redeliveries, a client sink that takes or fails, and the *)
(* acks that follow.                                                       *)
(***************************************************************************)
\* r.sub.NextMsgWithContext(ctxt) returns, as a new handle, the message it
\* returned last: the broker redelivers a message it has no ack for
NextMsgAgain(limit) ==
    /\ subPC = "nextMsg"
    /\ ~opCancelled
    /\ numReads >= 1
    /\ numReads < limit
    /\ \A m \in acked : MsgKey(m) # MsgKey(subMsg)
    /\ numReads' = numReads + 1
    /\ subMsg' = Msg(numReads + 1, subMsg.stream, subMsg.consumer, subMsg.seq)
    /\ subPC' = "forward"
    /\ UNCHANGED <<reading, subLock, callbacks, wg, starterVars, spawned, alerts,
                   forwarded, cleanups>>

\* The client acks a message that reached it although msgOutput returned an
\* error for it
ClientAcksFailed(n) ==
    /\ n = subMsg.seq
    /\ ForwardCall(subMsg, ErrForward) \in forwarded
    /\ n \notin clientAcked
    /\ clientAcked' = clientAcked \cup {n}
    /\ ackReports' = ackReports \cup {AckIndication("S", TrackerConsumer, n)}
    /\ UNCHANGED <<startVars, ackPC, ackIn, clientSeen>>
    /\ UNCHANGED <<trackerOnlyVars, opCancelled, subscriberVars, wg, otherVars>>

\* The one Start call, by starter d
ForwardStart(d) ==
    \/ DispatcherStartCall(d) /\ numDispStarts = 0
    \/ DispatcherStartLock(d)
    \/ DispatcherStartTP(d)
    \/ DispatcherStartACKs(d, TRUE)
    \/ DispatcherStartSubscriber(d)
    \/ StartReadingLock(d) /\ UNCHANGED subscriberOnly
    \/ StartReadingLocked(d) /\ UNCHANGED subscriberOnly
    \/ DispatcherStartDone(d)

\* The goroutines of the started dispatcher while its scope is live
ForwardWorkers ==
    \/ NextMsgUpTo(MaxForwards) /\ UNCHANGED subscriberOnly
    \/ NextMsgAgain(MaxForwards) /\ UNCHANGED subscriberOnly
    \/ ReadFails /\ UNCHANGED subscriberOnly
    \/ ClientSinkTakes
    \/ ClientSinkFails
    \/ RecordForwarded
    \/ RecordReturned
    \/ Drain /\ UNCHANGED subscriberOnly
    \/ Unsubscribe /\ UNCHANGED subscriberOnly
    \/ Release /\ UNCHANGED subscriberOnly
    \/ HandleAck
    \/ AckHandled
    \/ \E ai \in AckIndications : NextAck(ai)
    \/ \E c \in Callers : SubmitAccepted(c) /\ UNCHANGED transportVars
    \/ TakeTask /\ UNCHANGED transportVars
    \/ \E x \in running : processInflightMessage(x) /\ UNCHANGED transportVars
    \/ \E x \in running : processMsgACK(x) /\ UNCHANGED transportVars

\* One Start; then two deliveries, of which the second may be a redelivery,
\* and the client's acks
NextForward ==
    \/ ForwardStart("r1")
    \/ ForwardWorkers
    \/ \E n \in SeqNums : ClientAcks(n)
    \/ \E n \in SeqNums : ClientAcksFailed(n)

SpecForward == Init /\ [][NextForward]_vars

(***************************************************************************)
(* Properties of the tracker.                                              *)
(***************************************************************************)
Stored(map, k) == Lookup(map, k.stream, k.consumer, k.seq)

IsAck(r) == r.kind = "jsInflightCtrlRecordACK"
IsRecord(r) == r.kind = "jsInflightCtrlRecordNewMsg"

\* This step is the execution of a handler
HandlerStep == handled'.order # handled.order
\* This step is the execution of the ack handler, AckSync having succeeded
AckedStep == HandlerStep /\ IsAck(handled'.request) /\ handled'.err = NoError

AbsentFor(k) ==
    {Error("no records related to stream %s", k.stream, "", 0),
     Error("no records related to consumer %s on stream %s", k.consumer, k.stream, 0),
     Error("no records related message [%d] for %s@%s", k.consumer, k.stream, k.seq)}

\* This step is the execution of the ack handler
AckStep == HandlerStep /\ IsAck(handled'.request)
\* This step is the execution of the record handler
RecordStep == HandlerStep /\ IsRecord(handled'.request)

\* C2: an ack whose key has no entry in the map returns an absent error, calls
\* AckSync on no message and leaves the map as it was.
C2_AckOfAbsentKey ==
    [][(AckStep /\ Stored(inflightPerStream, handled'.request.ack) = NoMsg) =>
          /\ handled'.err \in AbsentFor(handled'.request.ack)
          /\ handled'.ackSync = 0
          /\ ackSyncCalls' = ackSyncCalls
          /\ ackSyncOK' = ackSyncOK
          /\ inflightPerStream' = inflightPerStream]_vars

\* An ack for a consumer without records, on a stream that has records, was
\* answered with an absent error
C2_Witness ==
    /\ IsAck(handled.request)
    /\ handled.request.ack.stream \in DOMAIN inflightPerStream
    /\ handled.request.ack.consumer
           \notin DOMAIN inflightPerStream[handled.request.ack.stream].consumers
    /\ handled.err \in AbsentFor(handled.request.ack)
    /\ handled.ackSync = 0

\* C3: an entry leaves the map only in the ack handler step for its key in
\* which AckSync on its message succeeded; when AckSync fails the handler
\* returns the broker's error and the map, the entry included, is unchanged.
C3_RemovalOnlyWithSuccessfulAckSync ==
    [][/\ \A k \in AckIndications :
            (Stored(inflightPerStream, k) # NoMsg /\ Stored(inflightPerStream', k) = NoMsg)
            => /\ AckedStep
               /\ handled'.request.ack = k
               /\ handled'.ackSync = Stored(inflightPerStream, k).id
               /\ ackSyncOK'[Stored(inflightPerStream, k).id]
                      = ackSyncOK[Stored(inflightPerStream, k).id] + 1
       /\ (AckStep /\ ackSyncCalls' # ackSyncCalls /\ ackSyncOK' = ackSyncOK)
            => /\ handled'.err = Error("ack sync failed", "", "", 0)
               /\ inflightPerStream' = inflightPerStream
               /\ Stored(inflightPerStream', handled'.request.ack).id = handled'.ackSync
      ]_vars

\* AckSync failed for an ack, and the message is still stored under its key
C3_Witness ==
    /\ IsAck(handled.request)
    /\ handled.err = Error("ack sync failed", "", "", 0)
    /\ handled.before # NoMsg
    /\ Stored(inflightPerStream, handled.request.ack) = handled.before
    /\ ackSyncCalls[handled.before.id] >= 1
    /\ ackSyncOK[handled.before.id] = 0

\* C4: AckSync is called on a message only by the ack handler working on an
\* ack indication equal to the key the message is stored under; AckSync
\* succeeds at most once on a message; an ack for a key whose message was
\* acked and not recorded again returns the absent error and calls nothing.
C4_AckRoutedAtMostOnce ==
    [][/\ \A h \in CallIds :
            ackSyncCalls'[h] # ackSyncCalls[h]
            => /\ AckStep
               /\ Stored(inflightPerStream, handled'.request.ack).id = h
               /\ MsgKey(Stored(inflightPerStream, handled'.request.ack))
                      = handled'.request.ack
               /\ ackSyncCalls'[h] = ackSyncCalls[h] + 1
               /\ \A o \in CallIds \ {h} : ackSyncCalls'[o] = ackSyncCalls[o]
       /\ \A h \in CallIds : ackSyncOK'[h] <= 1
       /\ \A m \in acked' : ackSyncOK'[m.id] = 1
       /\ \A m \in acked :
            (AckStep /\ handled'.request.ack = MsgKey(m)
                /\ Stored(inflightPerStream, MsgKey(m)) = NoMsg)
            => /\ handled'.err = Error("no records related message [%d] for %s@%s",
                                       m.consumer, m.stream, m.seq)
               /\ ackSyncCalls' = ackSyncCalls
      ]_vars

\* A second ack for a key whose message was acked got the absent error
C4_Witness ==
    /\ IsAck(handled.request)
    /\ handled.ackSync = 0
    /\ handled.err \in AbsentFor(handled.request.ack)
    /\ \E m \in acked :
          /\ MsgKey(m) = handled.request.ack
          /\ ackSyncCalls[m.id] = 1
          /\ ackSyncOK[m.id] = 1

\* C5: no message in the map is one AckSync has succeeded on.
C5_InflightNotAcked ==
    \A m \in InflightMsgs(inflightPerStream) :
        /\ ackSyncOK[m.id] = 0
        /\ m \notin acked

\* A message is stored under a key of which an earlier delivery was acked
C5_Witness ==
    \E m \in acked :
        /\ Stored(inflightPerStream, MsgKey(m)) # NoMsg
        /\ Stored(inflightPerStream, MsgKey(m)).id # m.id

\* C6: recording a message whose metadata names another consumer than the
\* tracker's fails with 'message expected for <tracker's>, but meta says
\* <metadata's>' and leaves the map unchanged; a blocking caller whose context
\* is not cancelled is returned that error.
C6_ConsumerMismatchRejected ==
    [][/\ (RecordStep /\ handled'.request.message.meta
              /\ handled'.request.message.consumer # TrackerConsumer)
          => /\ handled'.err = Error("message expected for %s, but meta says %s",
                                     TrackerConsumer,
                                     handled'.request.message.consumer, 0)
             /\ inflightPerStream' = inflightPerStream
       /\ \A c \in Callers :
            (/\ callerPC[c] = "waiting"
             /\ callerPC'[c] = "idle"
             /\ ~callCancelled[c]
             /\ IsRecord(request[c])
             /\ request[c].message.meta
             /\ request[c].message.consumer # TrackerConsumer)
            => returned'[c] = Error("message expected for %s, but meta says %s",
                                    TrackerConsumer, request[c].message.consumer, 0)
      ]_vars

\* Scenario 4: a blocking record of a message for consumer X into the tracker
\* of consumer C returned the mismatch error, nothing is in the map
C6_Witness ==
    /\ IsRecord(handled.request)
    /\ handled.request.blocking
    /\ handled.request.message.consumer = "X"
    /\ returned["c1"] = Error("message expected for %s, but meta says %s", "C", "X", 0)
    /\ inflightPerStream = EmptyMap

PendingTasks == {newTasks[i] : i \in 1..Len(newTasks)} \cup {x.task : x \in running}

\* C8: handlers run one at a time and in the order the submissions were
\* accepted: the n-th handler execution is of the n-th accepted task, it is
\* the only execution in progress, and the map and the broker are touched by
\* handler steps only.
C8_SerialFifoHandlers ==
    [][/\ Len(newTasks') > Len(newTasks) =>
             /\ numAccepted' = numAccepted + 1
             /\ newTasks'[Len(newTasks')].order = numAccepted'
       /\ HandlerStep =>
             /\ handled'.order = handled.order + 1
             /\ \E x \in running :
                   /\ running = {x}
                   /\ x.phase = "handling"
                   /\ x.task.order = handled'.order
                   /\ x.task.request = handled'.request
       /\ (\/ inflightPerStream' # inflightPerStream
           \/ ackSyncCalls' # ackSyncCalls
           \/ ackSyncOK' # ackSyncOK) => HandlerStep
       /\ Cardinality(running') <= 1
       /\ \A t \in PendingTasks :
             /\ t.order > handled.order \/ (\E x \in running : x.task = t /\ x.phase = "replying")
       /\ \A i, j \in 1..Len(newTasks') :
             i < j => newTasks'[i].order < newTasks'[j].order
      ]_vars

\* A record and then an ack for the same key were accepted and handled in
\* that order while a later task waits in the queue
C8_Witness ==
    /\ IsAck(handled.request)
    /\ handled.order = 2
    /\ handled.err = NoError
    /\ handled.before.id < handled.request.id
    /\ newTasks # <<>>
    /\ Head(newTasks).order = 3

\* The submission of caller c is accepted in this step
Accepted(c) ==
    /\ callerPC[c] = "submitting"
    /\ callerPC'[c] # "submitting"
    /\ Len(newTasks') = Len(newTasks) + 1
    /\ newTasks'[Len(newTasks')].request = request[c]

C10_OneOutcomePerBlockingCall ==
    [][\A c \in Callers :
         /\ (callerPC[c] = "waiting" /\ callerPC'[c] # "waiting")
            => \/ \E x \in running :
                     /\ x.phase = "replying"
                     /\ x.task.request = request[c]
                     /\ handled.request = request[c]
                     /\ returned'[c] = handled.err
                     /\ running' = running \ {x}
               \/ /\ callCancelled[c]
                  /\ returned'[c] = Error("context canceled", "", "", 0)
                  /\ running' = running
         /\ (callerPC[c] = "idle" /\ callerPC'[c] = "idle") => returned'[c] = returned[c]
         /\ callerPC'[c] = "waiting" => returned'[c] = Pending
      ]_vars

\* The second of two blocking calls returned the error of its handler
C10_Witness ==
    /\ handled.request.blocking
    /\ handled.err # NoError
    /\ handled.order = 2
    /\ handled.request.id = 2
    /\ callerPC["c1"] = "idle"
    /\ returned["c1"] = handled.err
    /\ running = {}

(***************************************************************************)
(* Properties of the push subscriber.                                      *)
(***************************************************************************)
\* The StartReading call of starter s returns in this step
StartReadingReturns(s) == readerPC[s] = "locked" /\ readerPC'[s] = "idle"

\* C11: a subscriber has at most one reader over its lifetime.  The first
\* StartReading to return returns nil, spawns the read loop and adds one to
\* the wait-group; every other call, also one made after the loop has exited,
\* returns 'already reading' and leaves the loop, the wait-group and the
\* registered callbacks as they are; the flag never goes back to false.
C11_SingleReader ==
    [][/\ \A s \in Starters :
            StartReadingReturns(s) =>
                IF spawned = 0
                THEN /\ readerResult'[s] = Error("nil", "", "", 0)
                     /\ spawned' = 1
                     /\ wg' = wg + 1
                     /\ subPC = "none" /\ subPC' = "nextMsg"
                     /\ callbacks' = readerCall[s]
                ELSE /\ readerResult'[s] = Error("already reading", "", "", 0)
                     /\ spawned' = spawned
                     /\ wg' = wg
                     /\ callbacks' = callbacks
                     /\ readLoopVars' = readLoopVars
       /\ spawned' <= 1
       /\ (spawned' # spawned \/ callbacks' # callbacks \/ wg' > wg)
             => \E s \in Starters : StartReadingReturns(s)
       /\ reading => reading'
       /\ reading' = (spawned' = 1)
       /\ Cardinality({s \in Starters : readerResult'[s] = Error("nil", "", "", 0)}) <= 1
      ]_vars

\* The first call returned nil, the loop it spawned has exited, and the third
\* call, made by the other goroutine, was answered 'already reading'
C11_Witness ==
    /\ readerResult["r1"] = Error("nil", "", "", 0)
    /\ readerCall["r1"] = 1
    /\ readerResult["r2"] = Error("already reading", "", "", 0)
    /\ readerCall["r2"] = 3
    /\ subPC = "done"
    /\ spawned = 1
    /\ callbacks = 1
    /\ wg = 0

\* The read loop's forwardMsg call returns in this step
ForwardStep == subPC = "forward" /\ forwarded' # forwarded
\* The read loop has left its for loop
LoopLeft == subPC \in {"drain", "unsubscribe", "release", "done"}

\* C12: when forwardMsg returns an error, that error is passed to errorCB and
\* the loop goes on to the next read; when the read fails, errorCB is called
\* with the read's error and the loop is left for good: no further read, no
\* further forward.
C12_ForwardErrorContinuesReadErrorExits ==
    [][/\ ForwardStep =>
             \E call \in forwarded' \ forwarded :
                 /\ call.id = subMsg.id
                 /\ forwarded' = forwarded \cup {call}
                 /\ subPC' = "nextMsg"
                 /\ IF call.err = Error("nil", "", "", 0)
                    THEN alerts' = alerts
                    ELSE alerts' = Append(alerts, call.err)
       /\ (subPC = "nextMsg" /\ subPC' = "forward") =>
             /\ numReads' = numReads + 1
             /\ alerts' = alerts
       /\ (subPC = "nextMsg" /\ alerts' # alerts) =>
             /\ alerts' = Append(alerts, IF opCancelled
                                         THEN Error("context canceled", "", "", 0)
                                         ELSE Error("read failure", "", "", 0))
             /\ subPC' = "drain"
             /\ numReads' = numReads
       /\ LoopLeft =>
             /\ LoopLeft'
             /\ numReads' = numReads
             /\ forwarded' = forwarded
             /\ alerts' = alerts
       /\ numReads' # numReads => subPC = "nextMsg"
      ]_vars

\* The forward of the first message failed, the second message was read and
\* forwarded all the same, then the read failed and the loop is left
C12_Witness ==
    /\ alerts = <<Error("unable to forward", "", "", 0), Error("read failure", "", "", 0)>>
    /\ forwarded = {[id |-> 1, seq |-> 1, err |-> Error("unable to forward", "", "", 0)],
                    [id |-> 2, seq |-> 2, err |-> Error("nil", "", "", 0)]}
    /\ numReads = 2
    /\ LoopLeft

\* The errors that end the read loop
TerminalErrors == {Error("read failure", "", "", 0), Error("context canceled", "", "", 0)}
\* The forwardMsg calls that returned an error
FailedForwards == {call \in forwarded : call.err # Error("nil", "", "", 0)}

\* C13, as claimed: errorCB is invoked at most once over the lifetime of a
\* subscriber, and when the loop ended because the scope was cancelled, no
\* read having failed at the broker, errorCB was not invoked.
C13_AtMostOneAlertNoneOnCancel ==
    /\ Len(alerts) <= 1
    /\ (LoopLeft /\ opCancelled
            /\ \A i \in 1..Len(alerts) : alerts[i] # Error("read failure", "", "", 0))
         => alerts = <<>>

\* C13, amended: errorCB is invoked once for every forwardMsg call that failed
\* and exactly once more when the loop ends, as its last invocation, with the
\* error that ended the loop: the broker's read error, or the context's error
\* when the scope was cancelled.
C13_OneAlertPerFailureAndOneAtExit ==
    LET n == Len(alerts)
    IN  /\ \A i \in 1..n : alerts[i] \in TerminalErrors => (i = n /\ LoopLeft)
        /\ LoopLeft => (n >= 1 /\ alerts[n] \in TerminalErrors)
        /\ Cardinality({i \in 1..n : alerts[i] \notin TerminalErrors})
               = Cardinality(FailedForwards)
        /\ \A i \in 1..n :
               alerts[i] \notin TerminalErrors => alerts[i] \in {call.err : call \in FailedForwards}
        /\ (n >= 1 /\ alerts[n] = Error("context canceled", "", "", 0)) => opCancelled

\* The scope was cancelled after a forward had failed: the read loop has
\* exited and errorCB was invoked twice, last with the context's error
C13_Witness ==
    /\ subPC = "done"
    /\ opCancelled
    /\ alerts = <<Error("unable to forward", "", "", 0), Error("context canceled", "", "", 0)>>

\* The number of attempts of cleanup op so far
Attempts(op) == Cardinality({i \in 1..Len(cleanups) : cleanups[i].op = op})

\* C14: once the scope is cancelled while the read loop awaits the next
\* message, the loop goroutine exits.  On its way out, whether by cancellation
\* or by a read error, Drain and Unsubscribe are each attempted exactly once,
\* whatever the outcome of the other, both before the wait-group is released,
\* and forwardMsg is not called once the loop is left.
C14_ShutdownCleansUpOnce ==
    /\ (opCancelled /\ subPC = "nextMsg") ~> (subPC = "done")
    /\ [](/\ Attempts("Drain") <= 1
          /\ Attempts("Unsubscribe") <= 1
          /\ Len(cleanups) = Attempts("Drain") + Attempts("Unsubscribe")
          /\ cleanups # <<>> => LoopLeft
          /\ subPC \in {"release", "done"} =>
                (Attempts("Drain") = 1 /\ Attempts("Unsubscribe") = 1)
          /\ subPC = "done" <=> (spawned = 1 /\ wg = 0))
    /\ [][/\ wg' < wg =>
                /\ wg' = wg - 1
                /\ Attempts("Drain") = 1 /\ Attempts("Unsubscribe") = 1
                /\ cleanups' = cleanups
                /\ subPC' = "done"
          /\ LoopLeft => (forwarded' = forwarded /\ subMsg' = subMsg)
         ]_vars

\* The scope was cancelled while the loop awaited the next message: Drain
\* failed, Unsubscribe was attempted all the same, the wait-group is released
C14_Witness ==
    /\ opCancelled
    /\ alerts = <<Error("context canceled", "", "", 0)>>
    /\ forwarded = {}
    /\ cleanups = <<[op |-> "Drain", ok |-> FALSE], [op |-> "Unsubscribe", ok |-> TRUE]>>
    /\ subPC = "done"
    /\ wg = 0

(***************************************************************************)
(* Properties of the tracker's absent errors.                              *)
(***************************************************************************)
\* The first request the tracker handled is an ack for a key of stream S and
\* the tracker's consumer: nothing was recorded before it
FirstIsAckOfTrackerKey ==
    /\ handled.order = 1
    /\ IsAck(handled.request)
    /\ handled.request.ack.stream = "S"
    /\ handled.request.ack.consumer = TrackerConsumer

\* C19, as claimed: on a tracker with no prior record a blocking ack for
\* (S, C, n) is answered 'no records related message [n] for C@S'.
C19_AckOnNewTrackerSequenceLevel ==
    (FirstIsAckOfTrackerKey /\ handled.request.blocking) =>
        /\ handled.err = Error("no records related message [%d] for %s@%s",
                               "C", "S", handled.request.ack.seq)
        /\ (callerPC["c1"] = "idle" /\ numCalls = 1
                /\ returned["c1"] # Error("context canceled", "", "", 0))
             => returned["c1"] = Error("no records related message [%d] for %s@%s",
                                       "C", "S", handled.request.ack.seq)

\* C19, amended: on a tracker with no prior record a blocking ack for
\* (S, C, n) is answered 'no records related to stream S'; the ack handler
\* returns the sequence-level error only when the map has records for the
\* ack's stream and consumer and none under its sequence number, and the
\* consumer-level error only when it has records for the stream and none for
\* the consumer.
C19_AbsentErrorNamesFirstMissingLevel ==
    [][/\ AckStep =>
            LET ack == handled'.request.ack
                map == inflightPerStream
            IN  /\ ack.stream \notin DOMAIN map
                     <=> handled'.err = Error("no records related to stream %s",
                                              ack.stream, "", 0)
                /\ (ack.stream \in DOMAIN map
                        /\ ack.consumer \notin DOMAIN map[ack.stream].consumers)
                     <=> handled'.err
                            = Error("no records related to consumer %s on stream %s",
                                    ack.consumer, ack.stream, 0)
                /\ (ack.stream \in DOMAIN map
                        /\ ack.consumer \in DOMAIN map[ack.stream].consumers
                        /\ ack.seq \notin
                               DOMAIN map[ack.stream].consumers[ack.consumer].inflight)
                     <=> handled'.err = Error("no records related message [%d] for %s@%s",
                                              ack.consumer, ack.stream, ack.seq)
                /\ (handled.order = 0 /\ map = EmptyMap)
                     => handled'.err = Error("no records related to stream %s",
                                             ack.stream, "", 0)
       /\ \A c \in Callers :
            (/\ callerPC[c] = "waiting" /\ callerPC'[c] = "idle"
             /\ ~callCancelled[c]
             /\ FirstIsAckOfTrackerKey
             /\ request[c] = handled.request)
            => returned'[c] = Error("no records related to stream %s", "S", "", 0)
      ]_vars

\* The first call, a blocking ack for (S, C, MaxSeq) on the new tracker,
\* returned the stream-level error
C19_Witness ==
    /\ FirstIsAckOfTrackerKey
    /\ handled.request.blocking
    /\ handled.request.ack.seq = MaxSeq
    /\ numCalls = 1
    /\ callerPC["c1"] = "idle"
    /\ returned["c1"] = Error("no records related to stream %s", "S", "", 0)
    /\ inflightPerStream = EmptyMap

(***************************************************************************)
(* Properties of the publisher.                                            *)
(***************************************************************************)
\* What the select of Publish may return in the current state
ReadyOutcomes ==
    (IF okChan = "ack" THEN {Error("nil", "", "", 0)} ELSE {})
    \cup (IF okChan = "closed"
          THEN {Error("reading nats.PubAckFuture OK channel failure", "", "", 0)} ELSE {})
    \cup (IF errChan = "nack" THEN {Error("broker nack", "", "", 0)} ELSE {})
    \cup (IF errChan = "closed"
          THEN {Error("reading nats.PubAckFuture error channel failure", "", "", 0)} ELSE {})
    \cup (IF pubCancelled THEN {Error("context canceled", "", "", 0)} ELSE {})

\* C17: once the async publish is issued, Publish returns one of the outcomes
\* that are ready when it returns: nil only if the broker's ack was received,
\* the broker's error only if its nack was received, the context's error only
\* if the context was cancelled; it returns nothing while no outcome is ready,
\* and what it returned stays.
C17_PublishReportsOneReadyOutcome ==
    [][/\ (pubPC = "awaiting" /\ pubPC' = "idle") =>
             /\ pubResult = Pending
             /\ pubResult' \in ReadyOutcomes
             /\ pubResult' = Error("nil", "", "", 0) => okChan = "ack"
             /\ pubResult' = Error("broker nack", "", "", 0) => errChan = "nack"
             /\ pubResult' = Error("context canceled", "", "", 0) => pubCancelled
             /\ okChan' = okChan /\ errChan' = errChan
       /\ (pubPC = "awaiting" /\ ReadyOutcomes = {}) => pubPC' = "awaiting"
       /\ pubPC' = "awaiting" => pubResult' = Pending
       /\ (pubPC = "idle" /\ pubPC' = "idle") => pubResult' = pubResult
       /\ pubResult' = Error("nil", "", "", 0) => (okChan' = "ack" /\ errChan' # "nack")
       /\ ~(okChan' = "ack" /\ errChan' = "nack")
      ]_vars

\* The broker's ack and the cancellation of the context were both ready, and
\* Publish returned nil
C17_Witness ==
    /\ pubPC = "idle"
    /\ okChan = "ack"
    /\ pubCancelled
    /\ pubResult = Error("nil", "", "", 0)

(***************************************************************************)
(* Properties of the interval timer.                                       *)
(***************************************************************************)
\* The invocations of the callback that come from Start call i
FiresOf(i) == {n \in 1..Len(fires) : fires[n].id = i}
\* The one-shot Start calls that ran to their end: neither still waiting for
\* their tick nor cancelled by a later Start or by the scope before it
CompletedOneShots ==
    {i \in 1..Len(starts) :
        starts[i].fireOnce /\ schedule.id # i /\ i \notin cancelledSchedules}

\* C18: a Start with fire_once invokes the callback exactly once, one period
\* after that Start, and never again; a Start whose schedule a later Start
\* superseded before its tick invokes nothing; so when every Start was
\* one-shot, the callback has run once for each Start that completed.
C18_OneShotFiresOncePerStart ==
    /\ \A i \in 1..Len(starts) :
          starts[i].fireOnce =>
              /\ Cardinality(FiresOf(i)) <= 1
              /\ \A n \in FiresOf(i) : fires[n].at = starts[i].at + starts[i].period
              /\ schedule.id = i => FiresOf(i) = {}
              /\ i \in cancelledSchedules => FiresOf(i) = {}
              /\ i \in CompletedOneShots => Cardinality(FiresOf(i)) = 1
    /\ (\A i \in 1..Len(starts) : starts[i].fireOnce)
          => Len(fires) = Cardinality(CompletedOneShots)
    /\ \A n \in 1..Len(fires) : fires[n].id \in 1..Len(starts)

\* The one-shot scenario: a one-shot Start fired after its period and stayed
\* silent for another period, then a second one-shot Start, with a shorter
\* period, fired as well: two invocations
C18_Witness ==
    /\ Len(starts) = 2
    /\ starts[1] = [period |-> 2, fireOnce |-> TRUE, at |-> 0]
    /\ starts[2] = [period |-> 1, fireOnce |-> TRUE, at |-> 4]
    /\ fires = <<[id |-> 1, at |-> 2], [id |-> 2, at |-> 5]>>
    /\ schedule = NoSchedule
    /\ cancelledSchedules = {}

(***************************************************************************)
(* Properties of the dispatcher.                                           *)
(***************************************************************************)
\* The three workers have exited
WorkersExited == tpState = "exited" /\ ackPC = "done" /\ subPC = "done"

\* C15: after a successful Start, once the shared scope is cancelled the task
\* processor's worker, the ack receiver's worker and the subscriber's read
\* loop all exit and the shared wait-group comes back to zero, whatever is
\* queued or in a handler when the scope is cancelled.
C15_CancelledScopeStopsAllWorkers ==
    /\ (started /\ opCancelled) ~> (WorkersExited /\ wg = 0)
    /\ [](wg = (IF tpState = "running" THEN 1 ELSE 0)
               + (IF ackPC \in {"nextAck", "callback", "acking"} THEN 1 ELSE 0)
               + (IF subPC \in {"none", "done"} THEN 0 ELSE 1))

\* The scope was cancelled with a record in the queue and an ack in its
\* handler; the workers have exited and the wait-group is at zero
C15_Witness ==
    /\ started
    /\ opCancelled
    /\ WorkersExited
    /\ wg = 0
    /\ handled.order >= 1
    /\ numAccepted >= 2
    /\ alerts # <<>>

\* The Start call of starter d returns in this step
DispatcherStartReturns(d) == startPC[d] # "idle" /\ startPC'[d] = "idle"

\* C16: a dispatcher is started at most once.  A Start returns nil only in the
\* step that sets the started flag, which is never reset; every Start that
\* finds the flag set returns 'already started' and leaves the task
\* processor, the ack receiver, the subscriber and the wait-group alone.
C16_StartedAtMostOnce ==
    [][/\ started => started'
       /\ \A d \in Starters :
            /\ (DispatcherStartReturns(d) /\ startResult'[d] = Error("nil", "", "", 0))
                 => /\ ~started /\ started'
                    /\ tpState # "created" /\ ackPC # "none" /\ subPC # "none"
            /\ (DispatcherStartReturns(d) /\ started)
                 => /\ startResult'[d] = Error("already started", "", "", 0)
                    /\ startPC[d] = "locking"
            /\ (started /\ startPC[d] # startPC'[d])
                 => /\ startPC'[d] \in {"idle", "locking"}
                    /\ UNCHANGED <<tpState, ackPC, subPC, wg, spawned, reading, callbacks>>
            /\ (~started /\ started') => DispatcherStartReturns(d) \/ startPC[d] \in {"idle", "locking"}
       /\ (~started /\ started') =>
            \E d \in Starters :
                DispatcherStartReturns(d) /\ startResult'[d] = Error("nil", "", "", 0)
       /\ Cardinality({d \in Starters : startResult'[d] = Error("nil", "", "", 0)}) <= 1
      ]_vars

\* One Start returned nil, and both Start calls made after it, one from each
\* goroutine, returned 'already started'
C16_Witness ==
    /\ started
    /\ numDispStarts = 3
    /\ startPC = [d \in Starters |-> "idle"]
    /\ \A d \in Starters : startResult[d] = Error("already started", "", "", 0)
    /\ spawned = 1

\* A record for key k has been submitted to the task processor: it is queued
\* or in its handler, or it was handled, which left the message in the map,
\* among the acked or among the superseded ones
RecordSubmitted(k) ==
    \/ \E t \in PendingTasks : IsRecord(t.request) /\ MsgKey(t.request.message) = k
    \/ IsRecord(handled.request) /\ MsgKey(handled.request.message) = k
    \/ Stored(inflightPerStream, k) # NoMsg
    \/ \E m \in acked \cup superseded : MsgKey(m) = k

\* C20: in a started dispatcher the record for stream sequence n is submitted
\* to the task processor before any ack for n is, so the ack of a message the
\* client was given is never answered with an absent error.
C20_RecordSubmittedBeforeAck ==
    /\ [][\A c \in Callers :
              (started /\ Accepted(c) /\ IsAck(request[c]))
                  => RecordSubmitted(request[c].ack)]_vars
    /\ []((started /\ IsAck(handled.request) /\ handled.request.ack.seq \in clientSeen)
            => handled.err \notin AbsentFor(handled.request.ack))

\* The forward callback of Start calls RecordInflightMessage in this step
RecordCallStep == callerPC["c1"] = "idle" /\ callerPC'["c1"] = "submitting"

\* The forward callback of Start returns from RecordInflightMessage in this step
RecordReturnStep == subPC = "recording" /\ subPC' # "recording"

\* C21: for every message handed to the dispatcher's forward callback the
\* client sink is invoked before the record is submitted to the tracker, the
\* record is submitted non-blocking, and a failed record leaves the client
\* sink called for that message.
C21_SinkBeforeNonBlockingRecord ==
    [][/\ RecordCallStep =>
              /\ subMsg.seq \in clientSeen
              /\ IsRecord(request'["c1"])
              /\ request'["c1"].message = subMsg
              /\ ~request'["c1"].blocking
       /\ callerPC'["c1"] # "waiting"
       /\ RecordReturnStep =>
              /\ ForwardCall(subMsg, returned["c1"]) \in forwarded'
              /\ subMsg.seq \in clientSeen'
       /\ \A f \in forwarded' : f.err # ErrForward => f.seq \in clientSeen']_vars

\* The client sink took the message, and the record that followed failed
C21_Witness ==
    /\ started
    /\ subPC = "nextMsg"
    /\ \E f \in forwarded : f.err \notin {NoError, ErrForward} /\ f.seq \in clientSeen
    /\ numReads >= 1

\* The executions that enter resultCB in this step: request.resultCB(err)
ResultCallbacks == {x \in running' \ running : x.phase = "replying"}

\* The worker exits in this step
WorkerExitStep == tpState = "running" /\ tpState' = "exited"

\* C22: the result callback of an accepted submission is invoked exactly once
\* if the submission is blocking and never if it is not, whether the handler
\* succeeds or fails, and also when the queue is drained on cancellation: a
\* handler execution invokes the callback of its own task, with the handler's
\* error, exactly when the task is blocking, no other step invokes one, no
\* task is handled twice, and the worker leaves no blocking submission behind
\* whose callback was not invoked.
C22_ResultCallbackOnceIffBlocking ==
    [][/\ HandlerStep =>
              /\ handled'.order > handled.order
              /\ ResultCallbacks =
                     IF handled'.request.blocking
                     THEN {Execution(Task(handled'.request, handled'.order),
                                     "replying", handled'.err)}
                     ELSE {}
       /\ ResultCallbacks # {} => HandlerStep
       /\ WorkerExitStep =>
              \A i \in 1..Len(newTasks) : ~newTasks[i].request.blocking]_vars

\* The call whose result channel execution x sends on is still in its select
ResultAwaited(x) ==
    \E c \in Callers : callerPC[c] = "waiting" /\ request[c].id = x.task.request.id

\* C24: delivering the result of a blocking submission never blocks the
\* worker: the handler's resultCB completes even when the caller has returned
\* on its cancelled context, so no execution is ever sending on a result
\* channel that nobody will receive from, and the worker goes on to the
\* following tasks and to its exit.
C24_ResultDeliveryNeverBlocksWorker ==
    \A x \in running : x.phase = "replying" => ResultAwaited(x)

\* Where a Start call is inside a broker operation: at "acks" it is in
\* d.ackWatcher.SubscribeForACKs, which subscribes to the broker's ack-report
\* subject and returns the subscription's error
StartBrokerCalls == {"acks"}

\* Where a StartReading call is inside a broker or channel operation: nowhere,
\* the subscription is read, drained and unsubscribed by the goroutine only
StartReadingBrokerCalls == {}

\* C23: no component mutex is held across a channel operation or a broker
\* call: whoever holds the dispatcher's mutex or the subscriber's mutex is not
\* in a broker operation nor in a channel send or receive.
C23_NoLockAcrossChannelOrBrokerCall ==
    /\ \A d \in Starters : dispLock = d => startPC[d] \notin StartBrokerCalls
    /\ \A s \in Starters : subLock = s => readerPC[s] \notin StartReadingBrokerCalls

\* The calls of the forward callback in which msgOutput returned an error
FailedSinks == {f \in forwarded : f.err = ErrForward}

\* msgOutput returns an error for the message in hand in this step
SinkFailsStep ==
    /\ subPC = "forward"
    /\ subPC' # "forward"
    /\ ForwardCall(subMsg, ErrForward) \in forwarded'

\* The messages the tracker was given or holds: in a submitted record, in the
\* map, acked or displaced
TrackedMsgs ==
    {t.request.message : t \in {p \in PendingTasks : IsRecord(p.request)}}
    \cup {request[c].message : c \in {b \in Callers : IsRecord(request[b])}}
    \cup InflightMsgs(inflightPerStream) \cup acked \cup superseded

\* This step handles an ack for the key of a message msgOutput failed for
AckOfFailedSinkStep ==
    /\ HandlerStep
    /\ IsAck(handled'.request)
    /\ \E f \in FailedSinks :
           handled'.request.ack = AckIndication("S", TrackerConsumer, f.seq)

\* What the failed msgOutput call itself does: its error goes to errorCB, the
\* loop reads on, and no record is submitted, then or later, for that handle
SinkErrorSkipsRecord ==
    /\ SinkFailsStep =>
           /\ alerts' = Append(alerts, ErrForward)
           /\ subPC' = "nextMsg"
           /\ numCalls' = numCalls
           /\ callerPC'["c1"] = "idle"
           /\ inflightPerStream' = inflightPerStream
    /\ \A f \in FailedSinks : \A m \in TrackedMsgs' : m.id # f.id

\* C25, as claimed: when msgOutput returns an error the forward callback
\* returns it without submitting a record, the message never enters the map,
\* errorCB gets the error and the loop continues, and a later ack indication
\* for that message's key is answered with the absent error and no AckSync.
C25_AckAfterSinkErrorIsAbsent ==
    [][/\ SinkErrorSkipsRecord
       /\ AckOfFailedSinkStep =>
              /\ handled'.err \in AbsentFor(handled'.request.ack)
              /\ handled'.ackSync = 0]_vars

\* C25, amended: as above, but the ack for that key is answered with the
\* absent error and no AckSync only while no other delivery of the key is in
\* the map; after a redelivery that msgOutput took and the callback recorded
\* the ack finds that delivery, and AckSync is called on it, never on the
\* handle msgOutput failed for.
C25_AckAfterSinkErrorNeverOnFailedHandle ==
    [][/\ SinkErrorSkipsRecord
       /\ AckOfFailedSinkStep =>
              \/ /\ handled'.err \in AbsentFor(handled'.request.ack)
                 /\ handled'.ackSync = 0
                 /\ handled'.before = NoMsg
              \/ /\ handled'.before # NoMsg
                 /\ MsgKey(handled'.before) = handled'.request.ack
                 /\ handled'.before.seq \in clientSeen
                 /\ \A f \in FailedSinks : f.id # handled'.before.id
                 /\ handled'.ackSync = handled'.before.id]_vars

\* msgOutput failed for the first delivery, errorCB got the error, the loop
\* went on to a second delivery, and the ack for the first one's key was
\* answered with the absent error
C25_Witness ==
    /\ numReads = 2
    /\ alerts # <<>>
    /\ alerts[1] = ErrForward
    /\ IsAck(handled.request)
    /\ handled.err \in AbsentFor(handled.request.ack)
    /\ handled.ackSync = 0
    /\ \E f \in FailedSinks :
           /\ f.id = 1
           /\ handled.request.ack = AckIndication("S", TrackerConsumer, f.seq)

====
